---- MODULE Spec2Model ----
(***************************************************************************)
(* The pattern-detection and trade-parameter engine of                     *)
(* src/backend/trading_assistant_backend.py.                               *)
(*                                                                         *)
(* Prices of a candle are whole numbers of mills (0.001 of a price unit),  *)
(* so the percentage thresholds of the detectors are exact integer         *)
(* comparisons.  A cell of the price frame is a number, NaN, or a value    *)
(* that is no number at all (a cell of an object column), on which         *)
(* comparison and arithmetic raise.  The trade parameters are exact        *)
(* rationals; binary floating-point error is not modelled.                 *)
(***************************************************************************)
EXTENDS Integers, Sequences, FiniteSets, TLC

VARIABLES
    series,           \* price_data / hist_data: the candle frame, oldest first
    pc,               \* position of the caller
    order_blocks,     \* what find_order_blocks returned
    liquidity_zones,  \* what find_liquidity_zones returned
    fvgs,             \* what calculate_fair_value_gaps returned
    logged,           \* detectors whose except branch logged an error
    raised,           \* the exception that left the last call, "none" if it returned
    trade,            \* the last trade-parameter call: its inputs and result
    conf,             \* the last confidence call: its inputs and result
    sessions,         \* the session store: user_id -> TradingSession
    response          \* the last answer of /api/chat or /api/analyze

vars == <<series, pc, order_blocks, liquidity_zones, fvgs, logged, raised, trade, conf,
          sessions, response>>

----------------------------------------------------------------------------
(* Bounds of the model *)

\* longest frame handed to find_order_blocks
MaxCandlesOB == 10

\* longest frame handed to the other detectors
MaxCandles == 6

----------------------------------------------------------------------------
(* Cells of the frame and the comparisons Python makes on them *)

Num(x) == [k |-> "num", v |-> x]

NaN == [k |-> "nan", v |-> 0]

\* a cell holding no number (object column): comparing or rounding it raises
Bad == [k |-> "bad", v |-> 0]

IsNum(c) == c.k = "num"

\* a < b as Python evaluates it: "E" raises, any NaN operand compares false
Lt3(a, b) ==
    IF a.k = "bad" \/ b.k = "bad" THEN "E"
    ELSE IF a.k = "nan" \/ b.k = "nan" THEN "F"
    ELSE IF a.v < b.v THEN "T" ELSE "F"

Gt3(a, b) == Lt3(b, a)

\* `x and y`: y is evaluated only when x is true
And3(x, y) == IF x = "T" THEN y ELSE x

\* price_data[col].iloc[i], i counted from 0 as in the source
At(s, col, i) == s[i + 1][col]

\* seq[-n:]
LastN(seq, n) ==
    IF Len(seq) <= n THEN seq ELSE SubSeq(seq, Len(seq) - n + 1, Len(seq))

\* seq[:n]
FirstN(seq, n) == IF Len(seq) <= n THEN seq ELSE SubSeq(seq, 1, n)

Abs(x) == IF x < 0 THEN -x ELSE x

Candle(o, h, l, c) == [Open |-> o, High |-> h, Low |-> l, Close |-> c]

\* no call made yet, or a call that returned nothing
NoCall == [k |-> "none"]

\* sessions = {}
NoSessions == [u \in {} |-> NoCall]

----------------------------------------------------------------------------
(* SmartMoneyAnalyzer.find_order_blocks *)

\* order_blocks[-5:]
OrderBlockLimit == 5

\* the strength test with >= in place of >
OBStrengthOrEqual(a, b, c) == IF Abs(a - b) * 1000 >= c * 2 THEN "strong" ELSE "medium"

\* 'strong' if abs(a - b) > close[i] * 0.002 else 'medium'
OBStrength(a, b, c) == IF Abs(a - b) * 1000 > c * 2 THEN "strong" ELSE "medium"

BullishOBCond(s, i) ==
    And3(Lt3(At(s, "Close", i), At(s, "Open", i)),
         And3(Gt3(At(s, "Close", i + 1), At(s, "Open", i + 1)),
              Gt3(At(s, "Close", i + 2), At(s, "Close", i + 1))))

BearishOBCond(s, i) ==
    And3(Gt3(At(s, "Close", i), At(s, "Open", i)),
         And3(Lt3(At(s, "Close", i + 1), At(s, "Open", i + 1)),
              Lt3(At(s, "Close", i + 2), At(s, "Close", i + 1))))

\* the dict appended for index i; float() of a cell that is no number raises
OBBlock(s, i, type, levelCol) ==
    IF At(s, levelCol, i).k = "bad" THEN [k |-> "raise"]
    ELSE [k |-> "hit",
          block |-> [type |-> type,
                     level |-> At(s, levelCol, i),
                     strength |-> IF type = "bullish"
                                  THEN OBStrength(At(s, "Close", i + 2).v, At(s, "Close", i).v,
                                                  At(s, "Close", i).v)
                                  ELSE OBStrength(At(s, "Close", i).v, At(s, "Close", i + 2).v,
                                                  At(s, "Close", i).v),
                     timestamp |-> i]]

\* one pass of the loop body: a block, nothing, or an exception
OBStep(s, i) ==
    LET b == BullishOBCond(s, i) IN
    IF b = "E" THEN [k |-> "raise"]
    ELSE IF b = "T" THEN OBBlock(s, i, "bullish", "Low")
    ELSE LET r == BearishOBCond(s, i) IN
         IF r = "E" THEN [k |-> "raise"]
         ELSE IF r = "T" THEN OBBlock(s, i, "bearish", "High")
         ELSE [k |-> "none"]

\* for i in range(2, len(price_data) - 2), inside try: an exception ends the loop
RECURSIVE OBScan(_, _, _)
OBScan(s, i, acc) ==
    IF i >= Len(s) - 2 THEN [out |-> acc, err |-> FALSE]
    ELSE LET r == OBStep(s, i) IN
         IF r.k = "raise" THEN [out |-> acc, err |-> TRUE]
         ELSE OBScan(s, i + 1, IF r.k = "hit" THEN Append(acc, r.block) ELSE acc)

\* the first five blocks instead of the last five
OBReturnFirst(found) == FirstN(found, OrderBlockLimit)

\* return order_blocks[-5:] if order_blocks else []
OBReturn(found) == LastN(found, OrderBlockLimit)

find_order_blocks(s) ==
    LET r == OBScan(s, 2, <<>>) IN [out |-> OBReturn(r.out), err |-> r.err]

----------------------------------------------------------------------------
(* Exact rationals n/d with d > 0, in lowest terms *)

RECURSIVE GCD(_, _)
GCD(a, b) == IF b = 0 THEN a ELSE GCD(b, a % b)

Rat(n, d) ==
    LET g == GCD(Abs(n), Abs(d))
        sgn == IF d < 0 THEN -1 ELSE 1
    IN [n |-> sgn * (n \div g), d |-> sgn * (d \div g)]

RInt(x) == [n |-> x, d |-> 1]

RAdd(a, b) == Rat(a.n * b.d + b.n * a.d, a.d * b.d)

RSub(a, b) == Rat(a.n * b.d - b.n * a.d, a.d * b.d)

RMul(a, b) == Rat(a.n * b.n, a.d * b.d)

\* a / b for b # 0
RDiv(a, b) == Rat(a.n * b.d, a.d * b.n)

RAbs(a) == [n |-> Abs(a.n), d |-> a.d]

RLess(a, b) == a.n * b.d < b.n * a.d

\* n/d (d > 0) rounded to the nearest integer, a tie to the even one
RoundHalfEven(n, d) ==
    LET q == n \div d
        r == n - q * d
    IN IF 2 * r < d THEN q
       ELSE IF 2 * r > d THEN q + 1
       ELSE IF q % 2 = 0 THEN q ELSE q + 1

----------------------------------------------------------------------------
(* SmartMoneyAnalyzer.find_liquidity_zones *)

\* sorted(...)[:5]
LiquidityZoneLimit == 5

\* a single test already makes a zone
MinZoneTestsOne == 2 - 1

\* if count >= 2
MinZoneTests == 2

\* the cell cut to 2 decimals instead of rounded
Round2Floor(c) == IF IsNum(c) THEN Num((c.v \div 10) * 10) ELSE c

\* Series.round(2) on one cell: mills to the nearest 10 mills, NaN stays NaN
Round2(c) == IF IsNum(c) THEN Num(RoundHalfEven(c.v, 10) * 10) ELSE c

\* price_data[col].round(2); rounding a column that holds a non-number raises
RoundCol(s, col) ==
    IF \E i \in 1..Len(s) : s[i][col].k = "bad" THEN [k |-> "raise"]
    ELSE [k |-> "ok", col |-> [i \in 1..Len(s) |-> Round2(s[i][col])]]

\* occurrences of value v in a rounded column
Count(col, v) == Cardinality({i \in 1..Len(col) : col[i] = v})

\* the values value_counts() keeps (NaN is dropped) that pass `count >= 2`
Repeated(col) ==
    {col[i].v : i \in {j \in 1..Len(col) : IsNum(col[j]) /\ Count(col, col[j]) >= MinZoneTests}}

\* value_counts().items() restricted to the values that pass `count >= 2`:
\* most frequent first; pandas fixes no order among equal counts, so every
\* order of a tie is an outcome
CountOrders(col) ==
    LET vs == Repeated(col)
        n == Cardinality(vs)
    IN {p \in [1..n -> vs] :
          /\ \A i, j \in 1..n : i # j => p[i] # p[j]
          /\ \A i, j \in 1..n : i < j => Count(col, Num(p[i])) >= Count(col, Num(p[j]))}

\* the zones one loop appends, in the order of items()
Zones(col, order, type, text) ==
    [i \in 1..Len(order) |->
        [type |-> type,
         level |-> order[i],
         strength |-> Count(col, Num(order[i])),
         description |-> <<text, order[i], Count(col, Num(order[i]))>>]]

\* z put ahead of the zones of its own strength
RECURSIVE InsertDescBefore(_, _)
InsertDescBefore(sorted, z) ==
    IF sorted = <<>> THEN <<z>>
    ELSE IF sorted[Len(sorted)].strength > z.strength THEN Append(sorted, z)
    ELSE Append(InsertDescBefore(SubSeq(sorted, 1, Len(sorted) - 1), z), sorted[Len(sorted)])

\* z put behind every zone at least as strong as it
RECURSIVE InsertDesc(_, _)
InsertDesc(sorted, z) ==
    IF sorted = <<>> THEN <<z>>
    ELSE IF sorted[Len(sorted)].strength >= z.strength THEN Append(sorted, z)
    ELSE Append(InsertDesc(SubSeq(sorted, 1, Len(sorted) - 1), z), sorted[Len(sorted)])

\* the zones left in the order they were appended
SortByStrengthNone(zs) == zs

\* sorted(zones, key=strength, reverse=True): stable
RECURSIVE SortByStrength(_)
SortByStrength(zs) ==
    IF zs = <<>> THEN <<>>
    ELSE InsertDesc(SortByStrength(SubSeq(zs, 1, Len(zs) - 1)), zs[Len(zs)])

\* return sorted(liquidity_zones, ...)[:5]
LZReturn(zs) == FirstN(SortByStrength(zs), LiquidityZoneLimit)

\* the results find_liquidity_zones can return for frame s
find_liquidity_zones(s) ==
    LET highs == RoundCol(s, "High")
        lows == RoundCol(s, "Low")
    IN IF highs.k = "raise" THEN {[out |-> LZReturn(<<>>), err |-> TRUE]}
       ELSE IF lows.k = "raise"
       THEN {[out |-> LZReturn(Zones(highs.col, ho, "buy_side", "Buy-side liquidity at")),
              err |-> TRUE] : ho \in CountOrders(highs.col)}
       ELSE {[out |-> LZReturn(Zones(highs.col, ho, "buy_side", "Buy-side liquidity at")
                               \o Zones(lows.col, lo, "sell_side", "Sell-side liquidity at")),
              err |-> FALSE] : ho \in CountOrders(highs.col), lo \in CountOrders(lows.col)}

----------------------------------------------------------------------------
(* SmartMoneyAnalyzer.calculate_fair_value_gaps *)

\* fvgs[-3:]
FVGLimit == 3

\* a gap of exactly 0.1% of the close passes too
GapBigEnoughOrEqual(size, close) ==
    IF close.k = "bad" THEN "E"
    ELSE IF close.k = "nan" THEN "F"
    ELSE IF size * 1000 >= close.v THEN "T" ELSE "F"

\* gap_size > close[i] * 0.001, close a cell: a non-number raises, NaN is false
GapBigEnough(size, close) ==
    IF close.k = "bad" THEN "E"
    ELSE IF close.k = "nan" THEN "F"
    ELSE IF size * 1000 > close.v THEN "T" ELSE "F"

\* the midpoint without the division by 2
GapSum(type, upper, lower) ==
    [type |-> type, upper |-> upper, lower |-> lower,
     midpoint |-> Rat(upper + lower, 1), size |-> upper - lower]

\* the dict appended for a gap between lower and upper
Gap(type, upper, lower) ==
    [type |-> type, upper |-> upper, lower |-> lower,
     midpoint |-> Rat(upper + lower, 2), size |-> upper - lower]

\* one pass of the loop body: a gap, nothing, or an exception
FVGStep(s, i) ==
    LET up == Gt3(At(s, "Low", i + 1), At(s, "High", i - 1)) IN
    IF up = "E" THEN [k |-> "raise"]
    ELSE IF up = "T"
    THEN LET big == GapBigEnough(At(s, "Low", i + 1).v - At(s, "High", i - 1).v,
                                 At(s, "Close", i))
         IN IF big = "E" THEN [k |-> "raise"]
            ELSE IF big = "T"
            THEN [k |-> "hit",
                  gap |-> Gap("bullish", At(s, "Low", i + 1).v, At(s, "High", i - 1).v)]
            ELSE [k |-> "none"]
    ELSE LET down == Lt3(At(s, "High", i + 1), At(s, "Low", i - 1)) IN
         IF down = "E" THEN [k |-> "raise"]
         ELSE IF down = "T"
         THEN LET big == GapBigEnough(At(s, "Low", i - 1).v - At(s, "High", i + 1).v,
                                      At(s, "Close", i))
              IN IF big = "E" THEN [k |-> "raise"]
                 ELSE IF big = "T"
                 THEN [k |-> "hit",
                       gap |-> Gap("bearish", At(s, "Low", i - 1).v, At(s, "High", i + 1).v)]
                 ELSE [k |-> "none"]
         ELSE [k |-> "none"]

\* for i in range(1, len(price_data) - 1), inside try
RECURSIVE FVGScan(_, _, _)
FVGScan(s, i, acc) ==
    IF i >= Len(s) - 1 THEN [out |-> acc, err |-> FALSE]
    ELSE LET r == FVGStep(s, i) IN
         IF r.k = "raise" THEN [out |-> acc, err |-> TRUE]
         ELSE FVGScan(s, i + 1, IF r.k = "hit" THEN Append(acc, r.gap) ELSE acc)

\* return fvgs[-3:] if fvgs else []
FVGReturn(found) == LastN(found, FVGLimit)

calculate_fair_value_gaps(s) ==
    LET r == FVGScan(s, 1, <<>>) IN [out |-> FVGReturn(r.out), err |-> r.err]

----------------------------------------------------------------------------
(* Strings that the code inspects, as tuples of characters *)

UpperCase == <<"A", "B", "C", "D", "E", "F", "G", "H", "I", "J", "K", "L", "M",
               "N", "O", "P", "Q", "R", "S", "T", "U", "V", "W", "X", "Y", "Z">>

LowerCase == <<"a", "b", "c", "d", "e", "f", "g", "h", "i", "j", "k", "l", "m",
               "n", "o", "p", "q", "r", "s", "t", "u", "v", "w", "x", "y", "z">>

LowerChar(ch) ==
    IF \E i \in 1..Len(UpperCase) : UpperCase[i] = ch
    THEN LowerCase[CHOOSE i \in 1..Len(UpperCase) : UpperCase[i] = ch]
    ELSE ch

\* str.lower()
Lower(str) == [i \in 1..Len(str) |-> LowerChar(str[i])]

\* sub in str
Contains(str, sub) ==
    \E i \in 0..(Len(str) - Len(sub)) : SubSeq(str, i + 1, i + Len(sub)) = sub

----------------------------------------------------------------------------
(* TradingAI._calculate_trade_parameters *)

\* round(x, digits) of a rational: the nearest multiple of 10^-digits
RRound(x, digits) ==
    LET scale == IF digits = 1 THEN 10 ELSE IF digits = 2 THEN 100 ELSE 10000
    IN Rat(RoundHalfEven(x.n * scale, x.d), scale)

\* stop_distance = current_price * (atr_percent / 100), atr_percent = 0.5
StopDistance(current_price) == RMul(current_price, Rat(1, 200))

\* the entry 0.1% above the price for either bias
TradeEntryAbove(current_price, bias) ==
    RAdd(current_price, RMul(current_price, Rat(1, 1000)))

\* entry: 0.1% below the price for a bullish bias, 0.1% above otherwise
TradeEntry(current_price, bias) ==
    IF bias = "bullish"
    THEN RSub(current_price, RMul(current_price, Rat(1, 1000)))
    ELSE RAdd(current_price, RMul(current_price, Rat(1, 1000)))

TradeStop(entry, stop_distance, bias) ==
    IF bias = "bullish" THEN RSub(entry, stop_distance) ELSE RAdd(entry, stop_distance)

\* every target one stop distance from the entry
TradeTargetFlat(entry, stop_distance, bias, k) ==
    IF bias = "bullish" THEN RAdd(entry, stop_distance) ELSE RSub(entry, stop_distance)

\* tp1, tp2, tp3 for k = 1, 2, 3
TradeTarget(entry, stop_distance, bias, k) ==
    IF bias = "bullish"
    THEN RAdd(entry, RMul(stop_distance, RInt(k)))
    ELSE RSub(entry, RMul(stop_distance, RInt(k)))

\* risk_amount = balance * (risk_percent / 100)
RiskAmount(balance, risk_percent) == RMul(balance, RDiv(risk_percent, RInt(100)))

\* the test without .lower()
IsForexCased(asset_type) == Contains(asset_type, <<"f", "o", "r", "e", "x">>)

\* 'forex' in market_data.get('asset_type', '').lower()
IsForex(asset_type) == Contains(Lower(asset_type), <<"f", "o", "r", "e", "x">>)

\* the divisor of the position size: pip_risk * 10000 * pip_value, pip_value = 10
SizeDivisor(pip_risk, forex) ==
    IF forex THEN RMul(RMul(pip_risk, RInt(10000)), RInt(10)) ELSE pip_risk

\* the call's outcome: the returned dict or the exception of the division,
\* and the values its local variables held before the rounding of the return
calculate_trade_parameters(current_price, balance, risk_percent, bias, asset_type) ==
    LET stop_distance == StopDistance(current_price)
        entry == TradeEntry(current_price, bias)
        stop_loss == TradeStop(entry, stop_distance, bias)
        tp1 == TradeTarget(entry, stop_distance, bias, 1)
        tp2 == TradeTarget(entry, stop_distance, bias, 2)
        tp3 == TradeTarget(entry, stop_distance, bias, 3)
        risk_amount == RiskAmount(balance, risk_percent)
        pip_risk == RAbs(RSub(entry, stop_loss))
        forex == IsForex(asset_type)
        divisor == SizeDivisor(pip_risk, forex)
        locals == [stop_distance |-> stop_distance, entry |-> entry,
                   stop_loss |-> stop_loss, tp1 |-> tp1, tp2 |-> tp2, tp3 |-> tp3,
                   risk_amount |-> risk_amount, pip_risk |-> pip_risk]
    IN IF divisor.n = 0
       THEN [raised |-> "ZeroDivisionError", setup |-> NoCall,
             locals |-> locals @@ [position_size |-> NoCall]]
       ELSE [raised |-> "none",
             locals |-> locals @@ [position_size |-> RDiv(risk_amount, divisor)],
             setup |->
               [k |-> "setup",
                bias |-> bias,
                entry |-> RRound(entry, 2),
                stop_loss |-> RRound(stop_loss, 2),
                targets |-> [tp1 |-> RRound(tp1, 2),
                             tp2 |-> RRound(tp2, 2),
                             tp3 |-> RRound(tp3, 2)],
                position_size |-> RRound(RDiv(risk_amount, divisor), 2),
                risk_amount |-> RRound(risk_amount, 2),
                risk_reward_ratios |-> <<RInt(1), RInt(2), RInt(3)>>,
                pip_risk |-> RRound(IF forex THEN RMul(pip_risk, RInt(10000)) ELSE pip_risk, 1)]]

----------------------------------------------------------------------------
(* calculate_position, the /api/calculate-position handler *)

calculate_position(balance, risk_percent, entry, stop_loss) ==
    LET risk_amount == RiskAmount(balance, risk_percent)
        pip_risk == RAbs(RSub(entry, stop_loss))
    IN IF pip_risk.n = 0
       THEN [raised |-> "ZeroDivisionError", setup |-> NoCall]
       ELSE [raised |-> "none",
             setup |->
               [k |-> "position",
                position_size |-> RRound(RDiv(risk_amount, pip_risk), 2),
                risk_amount |-> RRound(risk_amount, 2),
                pip_risk |-> RRound(pip_risk, 4),
                potential_loss |-> RRound(risk_amount, 2),
                potential_profit_1_1 |-> RRound(risk_amount, 2),
                potential_profit_1_2 |-> RRound(RMul(risk_amount, RInt(2)), 2),
                potential_profit_1_3 |-> RRound(RMul(risk_amount, RInt(3)), 2)]]

----------------------------------------------------------------------------
(* TradingAI._calculate_confidence *)

\* confidence = 60
BaseConfidence == 60

\* random.randint(-5, 10)
JitterMin == -5

JitterMax == 10

\* min(95, max(50, confidence))
ConfidenceFloor == 50

ConfidenceCeiling == 95

\* an rsi entry of the indicators: a number, None, or no entry at all
NoneValue == [k |-> "none", v |-> 0]

Missing == [k |-> "missing", v |-> 0]

\* market_data.get('indicators', {}).get('rsi', 50)
RsiOrDefault(rsi) == IF rsi.k = "missing" THEN Num(50) ELSE rsi

\* the points added for the confluence factors
ConfluencePoints(factors) ==
    (IF factors > 3 THEN 10 ELSE 0) + (IF factors > 5 THEN 10 ELSE 0)

\* the points added for a clear trend
TrendPoints(trend) == IF trend \in {"bullish", "bearish"} THEN 5 ELSE 0

\* the rsi test with both ends included
RsiPointsInclusive(rsi) == IF 30 <= rsi.v /\ rsi.v <= 70 THEN 5 ELSE 0

\* the points added for 30 < rsi < 70, rsi a number
RsiPoints(rsi) == IF 30 < rsi.v /\ rsi.v < 70 THEN 5 ELSE 0

Clamp(confidence) ==
    LET low == IF confidence > ConfidenceFloor THEN confidence ELSE ConfidenceFloor
    IN IF low < ConfidenceCeiling THEN low ELSE ConfidenceCeiling

\* the call's outcome; jitter is what random.randint returned.  Comparing
\* None with 30 raises TypeError
calculate_confidence(factors, trend, rsi, jitter) ==
    LET r == RsiOrDefault(rsi) IN
    IF ~IsNum(r)
    THEN [raised |-> "TypeError", score |-> NoCall]
    ELSE [raised |-> "none",
          score |-> Clamp(BaseConfidence + ConfluencePoints(factors) + TrendPoints(trend)
                          + RsiPoints(r) + jitter)]

----------------------------------------------------------------------------
(* Calls of the detectors *)

InitDetect ==
    /\ series = <<>>
    /\ pc = "fetch"
    /\ order_blocks = <<>>
    /\ liquidity_zones = <<>>
    /\ fvgs = <<>>
    /\ logged = {}
    /\ raised = "none"
    /\ trade = NoCall
    /\ conf = NoCall
    /\ sessions = NoSessions
    /\ response = NoCall

\* the market-data collaborator delivers one more candle of the frame
AddCandle(cs, max) ==
    /\ pc = "fetch"
    /\ Len(series) < max
    /\ \E c \in cs : series' = Append(series, c)
    /\ UNCHANGED <<pc, order_blocks, liquidity_zones, fvgs, logged, raised, trade, conf, sessions, response>>

\* a call of find_order_blocks(series) by a caller at `from`
OrderBlocksCall(from) ==
    /\ pc = from
    /\ LET r == find_order_blocks(series) IN
         /\ order_blocks' = r.out
         /\ logged' = IF r.err THEN logged \cup {"order_blocks"} ELSE logged
    /\ pc' = "order_blocks_done"
    /\ UNCHANGED <<series, liquidity_zones, fvgs, raised, trade, conf, sessions, response>>

\* a call of find_liquidity_zones(series)
LiquidityZonesCall(from) ==
    /\ pc = from
    /\ \E r \in find_liquidity_zones(series) :
         /\ liquidity_zones' = r.out
         /\ logged' = IF r.err THEN logged \cup {"liquidity_zones"} ELSE logged
    /\ pc' = "liquidity_zones_done"
    /\ UNCHANGED <<series, order_blocks, fvgs, raised, trade, conf, sessions, response>>

\* a call of calculate_fair_value_gaps(series)
FairValueGapsCall(from) ==
    /\ pc = from
    /\ LET r == calculate_fair_value_gaps(series) IN
         /\ fvgs' = r.out
         /\ logged' = IF r.err THEN logged \cup {"fvgs"} ELSE logged
    /\ pc' = "fvgs_done"
    /\ UNCHANGED <<series, order_blocks, liquidity_zones, raised, trade, conf, sessions, response>>

----------------------------------------------------------------------------
(* find_order_blocks on frames long enough to hold more than five blocks *)

\* a falling candle, a rising candle that closes below it, and a candle
\* whose open is NaN and whose close is far above both
CandlesOB ==
    { Candle(Num(4000), Num(4100), Num(2900), Num(3000)),
      Candle(Num(1000), Num(2100), Num(900), Num(2000)),
      Candle(NaN, Num(5100), Num(4900), Num(5000)) }

AddCandleOB == AddCandle(CandlesOB, MaxCandlesOB)

FindOrderBlocks == OrderBlocksCall("fetch")

NextOB == AddCandleOB \/ FindOrderBlocks

SpecOB == InitDetect /\ [][NextOB]_vars

----------------------------------------------------------------------------
(* find_order_blocks on the windows of short frames *)

\* two falling candles (closes 500 and 499), three rising candles (closes
\* 500, 501 and 499.5), and a candle whose close is NaN; a move of 1 from a
\* close of 500 is exactly 0.2% of it
CandlesOBWindow ==
    { Candle(Num(501000), Num(502000), Num(499500), Num(500000)),
      Candle(Num(500000), Num(500500), Num(498500), Num(499000)),
      Candle(Num(499000), Num(500250), Num(498000), Num(500000)),
      Candle(Num(500000), Num(501250), Num(499750), Num(501000)),
      Candle(Num(498500), Num(499800), Num(498250), Num(499500)),
      Candle(Num(500000), Num(500100), Num(499900), NaN) }

AddCandleOBWindow == AddCandle(CandlesOBWindow, MaxCandles)

ScanOrderBlocks == OrderBlocksCall("fetch")

NextOBWindow == AddCandleOBWindow \/ ScanOrderBlocks

SpecOBWindow == InitDetect /\ [][NextOBWindow]_vars

----------------------------------------------------------------------------
(* find_liquidity_zones *)

\* three candles with different rounded highs and lows (2.375 and 4.125 are
\* exact ties of the rounding, and 2.38 is both a rounded high and a rounded
\* low), a candle with no low whose high rounds to 2.38 too, and a candle
\* whose low is no number
CandlesLZ ==
    { Candle(Num(1500), Num(2375), Num(1000), Num(1800)),
      Candle(Num(2000), Num(3000), Num(900), Num(1000)),
      Candle(Num(3000), Num(4125), Num(2375), Num(4000)),
      Candle(Num(2000), Num(2384), NaN, Num(2000)),
      Candle(Num(2500), Num(3000), Bad, Num(2500)) }

AddCandleLZ == AddCandle(CandlesLZ, MaxCandles)

FindLiquidityZones == LiquidityZonesCall("fetch")

NextLZ == AddCandleLZ \/ FindLiquidityZones

SpecLZ == InitDetect /\ [][NextLZ]_vars

----------------------------------------------------------------------------
(* calculate_fair_value_gaps *)

\* a low candle, a high candle, a candle just above the low one (its gap to
\* the low candle is 0.002), a row of NaN, and a low candle whose close is
\* no number
CandlesFVG ==
    { Candle(Num(1000), Num(1100), Num(900), Num(1000)),
      Candle(Num(2000), Num(2100), Num(1900), Num(2000)),
      Candle(Num(1150), Num(1200), Num(1102), Num(1150)),
      Candle(NaN, NaN, NaN, NaN),
      Candle(Num(1000), Num(1100), Num(900), Bad) }

AddCandleFVG == AddCandle(CandlesFVG, MaxCandles)

CalculateFairValueGaps == FairValueGapsCall("fetch")

NextFVG == AddCandleFVG \/ CalculateFairValueGaps

SpecFVG == InitDetect /\ [][NextFVG]_vars

----------------------------------------------------------------------------
(* calculate_fair_value_gaps on frames that also hold a candle with low > high *)

\* a candle around 1000, a candle whose low is 1 above the high of the
\* first (exactly 0.1% of a close of 1000), a candle far above both, a
\* candle whose low (1005) lies above its high (998), and a row of NaN
CandlesFVGWindow ==
    { Candle(Num(1000000), Num(1001000), Num(999000), Num(1000000)),
      Candle(Num(1002500), Num(1003000), Num(1002000), Num(1002500)),
      Candle(Num(1011000), Num(1012000), Num(1010000), Num(1011000)),
      Candle(Num(1000000), Num(998000), Num(1005000), Num(1000000)),
      Candle(NaN, NaN, NaN, NaN) }

AddCandleFVGWindow == AddCandle(CandlesFVGWindow, MaxCandles)

ScanFairValueGaps == FairValueGapsCall("fetch")

NextFVGWindow == AddCandleFVGWindow \/ ScanFairValueGaps

SpecFVGWindow == InitDetect /\ [][NextFVGWindow]_vars

----------------------------------------------------------------------------
(* Calls of the trade-parameter calculation *)

Prices == {RInt(-100), RInt(0), RInt(1), Rat(5, 4), RInt(100), RInt(3368)}

Balances == {RInt(-5), RInt(0), RInt(10000)}

RiskPercents == {RInt(0), Rat(5, 2), RInt(100), RInt(150)}

Biases == {"bullish", "bearish"}

\* market_data.get('asset_type', ''): no entry, "stock", "foreign", "forex",
\* "Forex", "FOREX pair"
AssetTypes ==
    { <<>>,
      <<"s", "t", "o", "c", "k">>,
      <<"f", "o", "r", "e", "i", "g", "n">>,
      <<"f", "o", "r", "e", "x">>,
      <<"F", "o", "r", "e", "x">>,
      <<"F", "O", "R", "E", "X", " ", "p", "a", "i", "r">> }

InitCalc ==
    /\ series = <<>>
    /\ pc = "idle"
    /\ order_blocks = <<>>
    /\ liquidity_zones = <<>>
    /\ fvgs = <<>>
    /\ logged = {}
    /\ raised = "none"
    /\ trade = NoCall
    /\ conf = NoCall
    /\ sessions = NoSessions
    /\ response = NoCall

\* a call of _calculate_trade_parameters by a caller at `from`
TradeParametersCall(from, prices, balances, risks, assets) ==
    /\ pc = from
    /\ \E p \in prices, b \in balances, rp \in risks, bias \in Biases, a \in assets :
         LET r == calculate_trade_parameters(p, b, rp, bias, a) IN
         /\ trade' = [k |-> "params", current_price |-> p, balance |-> b,
                      risk_percent |-> rp, bias |-> bias, asset_type |-> a,
                      locals |-> r.locals, setup |-> r.setup]
         /\ raised' = r.raised
    /\ pc' = "trade_done"
    /\ UNCHANGED <<series, order_blocks, liquidity_zones, fvgs, logged, conf, sessions, response>>

CalculateTradeParameters ==
    TradeParametersCall("idle", Prices, Balances, RiskPercents, AssetTypes)

\* entry and stop_loss of a /api/calculate-position request
PositionPrices == {RInt(95), RInt(100), Rat(5, 4)}

CalculatePosition ==
    /\ pc = "idle"
    /\ \E b \in Balances, rp \in RiskPercents, e \in PositionPrices, sl \in PositionPrices :
         LET r == calculate_position(b, rp, e, sl) IN
         /\ trade' = [k |-> "position", balance |-> b, risk_percent |-> rp,
                      entry |-> e, stop_loss |-> sl, setup |-> r.setup]
         /\ raised' = r.raised
    /\ pc' = "trade_done"
    /\ UNCHANGED <<series, order_blocks, liquidity_zones, fvgs, logged, conf, sessions, response>>

NextTrade == CalculateTradeParameters \/ CalculatePosition

SpecTrade == InitCalc /\ [][NextTrade]_vars

----------------------------------------------------------------------------
(* Calls of the confidence score *)

\* len(analysis.get('confluence_factors', [])) is at most this
MaxFactors == 8

Trends == {"bullish", "bearish", "None"}

RsiValues ==
    {Missing, NoneValue} \cup {Num(x) : x \in {0, 29, 30, 31, 50, 69, 70, 71, 100}}

CalculateConfidence ==
    /\ pc = "idle"
    /\ \E f \in 0..MaxFactors, t \in Trends, rsi \in RsiValues, j \in JitterMin..JitterMax :
         LET r == calculate_confidence(f, t, rsi, j) IN
         /\ conf' = [k |-> "call", factors |-> f, trend |-> t, rsi |-> rsi,
                     jitter |-> j, score |-> r.score]
         /\ raised' = r.raised
    /\ pc' = "confidence_done"
    /\ UNCHANGED <<series, order_blocks, liquidity_zones, fvgs, logged, trade, sessions, response>>

NextConf == CalculateConfidence

SpecConf == InitCalc /\ [][NextConf]_vars

----------------------------------------------------------------------------
(* The detectors on one frame and the trade parameters, in the order of analyze() *)

\* a rising candle, a falling candle above it, a candle above both whose
\* open and high are NaN, and a rising candle whose low and close are no
\* numbers
Candles ==
    { Candle(Num(1000), Num(2100), Num(900), Num(2000)),
      Candle(Num(4000), Num(4100), Num(2900), Num(3000)),
      Candle(NaN, NaN, Num(4900), Num(5000)),
      Candle(Num(1000), Num(2100), Bad, Bad) }

AddCandleAny == AddCandle(Candles, MaxCandles)

DetectOrderBlocks == OrderBlocksCall("fetch")

DetectLiquidityZones == LiquidityZonesCall("order_blocks_done")

DetectFairValueGaps == FairValueGapsCall("liquidity_zones_done")

\* generate_analysis then computes the trade parameters from the session:
\* its price and balance, the default risk_percent of 2.5, the bias the
\* language model gave, and a market_data that holds no 'asset_type'
AnalyzeTradeParameters ==
    TradeParametersCall("fvgs_done", {RInt(100)}, {RInt(10000)}, {Rat(5, 2)}, {<<>>})

Next ==
    \/ AddCandleAny
    \/ DetectOrderBlocks
    \/ DetectLiquidityZones
    \/ DetectFairValueGaps
    \/ AnalyzeTradeParameters

Spec == InitDetect /\ [][Next]_vars

----------------------------------------------------------------------------
(* The session store, /api/chat and /api/analyze *)

\* chat requests of one run
MaxMessages == 4

\* user_id of a request; "u1" never sends a chat message
Users == {"default", "u1"}

ChatUsers == {"default"}

\* random.randint(-5, 10) of the requests: its two ends
SessionJitters == {JitterMin, JitterMax}

\* TradingSession(user_id=user_id): every field None but risk_percent;
\* conversation_history is kept as the number of its entries
NewSession ==
    [asset |-> "None", symbol |-> "None", price |-> NoneValue, timeframe |-> "None",
     account_type |-> "None", balance |-> NoneValue, risk_percent |-> Rat(5, 2),
     conversation_history |-> 0, analysis_data |-> NoCall]

\* what process_message and the handlers read of a message: the keyword of
\* the asset list it holds, its first number, the timeframe key it holds,
\* and the account word it holds
Message(text, asset, number, timeframe, account) ==
    [text |-> text, asset |-> asset, number |-> number, timeframe |-> timeframe,
     account |-> account]

Messages ==
    { Message("gold", "gold", NoneValue, "None", "None"),
      Message("gbp", "gbp", NoneValue, "None", "None"),
      Message("3368", "None", RInt(3368), "None", "None"),
      Message("0", "None", RInt(0), "None", "None"),
      Message("1h", "None", RInt(1), "1h", "None"),
      Message("daily", "None", NoneValue, "daily", "None"),
      Message("funded 5000", "None", RInt(5000), "None", "funded"),
      Message("personal", "None", NoneValue, "None", "personal"),
      Message("analyze", "None", NoneValue, "None", "None") }

\* bool(x) of a price: None and 0.0 are false
Truthy(x) == x # NoneValue /\ x.n # 0

\* only gold/xauusd, eur and btc/bitcoin set the asset
handle_asset_selection(session, m) ==
    IF m.asset = "gold" THEN [session EXCEPT !.asset = "GOLD", !.symbol = "GC=F"]
    ELSE session

\* session.price = float(numbers[0])
handle_price_input(session, m) ==
    IF m.number # NoneValue THEN [session EXCEPT !.price = m.number] ELSE session

handle_timeframe_selection(session, m) ==
    [session EXCEPT !.timeframe = IF m.timeframe = "1h" THEN "1H" ELSE "1D"]

\* the balance is the first number of the message, 10000 without one
handle_account_info(session, m) ==
    [session EXCEPT
        !.account_type = IF m.account = "funded" THEN "Funded" ELSE "Personal",
        !.balance = IF m.number # NoneValue THEN m.number ELSE RInt(10000)]

process_message(session, m) ==
    IF m.asset # "None" THEN handle_asset_selection(session, m)
    ELSE IF session.asset # "None" /\ ~Truthy(session.price) /\ m.number # NoneValue
    THEN handle_price_input(session, m)
    ELSE IF m.timeframe # "None" THEN handle_timeframe_selection(session, m)
    ELSE IF m.account # "None" THEN handle_account_info(session, m)
    ELSE session

\* the user messages stored in all sessions
RECURSIVE TotalMessages(_, _)
TotalMessages(store, us) ==
    IF us = {} THEN 0
    ELSE LET u == CHOOSE x \in us : TRUE
         IN (IF u \in DOMAIN store THEN store[u].conversation_history \div 2 ELSE 0)
              + TotalMessages(store, us \ {u})

Answer(route, user, status, reached) ==
    [k |-> "answer", route |-> route, user |-> user, status |-> status, reached |-> reached]

\* POST /api/chat: the session is created on first use, the message and the
\* reply are appended to its history
Chat ==
    /\ TotalMessages(sessions, Users) < MaxMessages
    /\ \E u \in ChatUsers, m \in Messages :
         LET session == IF u \in DOMAIN sessions THEN sessions[u] ELSE NewSession
             asked == [session EXCEPT !.conversation_history = @ + 1]
             told == process_message(asked, m)
         IN sessions' = [x \in DOMAIN sessions \cup {u} |->
                            IF x = u THEN [told EXCEPT !.conversation_history = @ + 1]
                            ELSE sessions[x]]
            /\ response' = Answer("chat", u, 200, FALSE)
    /\ UNCHANGED <<series, pc, order_blocks, liquidity_zones, fvgs, logged, raised, trade, conf>>

\* all([session.asset, session.price, session.timeframe])
HasRequired(session) ==
    session.asset # "None" /\ Truthy(session.price) /\ session.timeframe # "None"

\* _calculate_trade_parameters with the session's values: a balance of None
\* raises TypeError at risk_amount = balance * (risk_percent / 100)
session_trade_parameters(session, bias) ==
    IF session.balance = NoneValue
    THEN [raised |-> "TypeError", setup |-> NoCall, locals |-> NoCall]
    ELSE calculate_trade_parameters(session.price, session.balance, session.risk_percent,
                                    bias, <<>>)

\* POST /api/analyze answered 404 or 400
AnalyzeRejected ==
    /\ \E u \in Users :
         \/ /\ u \notin DOMAIN sessions
            /\ response' = Answer("analyze", u, 404, FALSE)
         \/ /\ u \in DOMAIN sessions
            /\ ~HasRequired(sessions[u])
            /\ response' = Answer("analyze", u, 400, FALSE)
    /\ UNCHANGED <<series, pc, order_blocks, liquidity_zones, fvgs, logged, raised, trade,
                   conf, sessions>>

\* POST /api/analyze past the validation, with an empty history frame:
\* generate_analysis computes the trade parameters and the confidence from
\* the session, the bias of the language model and the rsi of the
\* indicators; an exception leaves the request before analysis_data is set
AnalyzeAccepted ==
    /\ \E u \in DOMAIN sessions, bias \in Biases, rsi \in {NoneValue, Num(50)},
          j \in SessionJitters :
         LET session == sessions[u]
             tp == session_trade_parameters(session, bias)
             cf == calculate_confidence(3, "bullish", rsi, j)
         IN /\ HasRequired(session)
            /\ trade' = [k |-> "params", current_price |-> session.price,
                         balance |-> session.balance, risk_percent |-> session.risk_percent,
                         bias |-> bias, asset_type |-> <<>>, locals |-> tp.locals,
                         setup |-> tp.setup]
            /\ IF tp.raised # "none"
               THEN /\ raised' = tp.raised
                    /\ response' = Answer("analyze", u, 500, TRUE)
                    /\ UNCHANGED <<conf, sessions>>
               ELSE /\ conf' = [k |-> "call", factors |-> 3, trend |-> "bullish", rsi |-> rsi,
                                jitter |-> j, score |-> cf.score]
                    /\ raised' = cf.raised
                    /\ IF cf.raised # "none"
                       THEN /\ response' = Answer("analyze", u, 500, TRUE)
                            /\ UNCHANGED sessions
                       ELSE /\ response' = Answer("analyze", u, 200, TRUE)
                            /\ sessions' =
                                 [sessions EXCEPT ![u].analysis_data =
                                     [asset |-> session.asset, symbol |-> session.symbol,
                                      timeframe |-> session.timeframe,
                                      current_price |-> session.price,
                                      trade_setup |-> tp.setup, confidence |-> cf.score]]
    /\ UNCHANGED <<series, pc, order_blocks, liquidity_zones, fvgs, logged>>

NextSession == Chat \/ AnalyzeRejected \/ AnalyzeAccepted

SpecSession == InitCalc /\ [][NextSession]_vars

----------------------------------------------------------------------------
(* Properties of the detectors *)

\* indices whose window the scan of find_order_blocks matched before any
\* exception ended it
OBMatchIdx(s) ==
    {i \in 2..(Len(s) - 3) :
        /\ OBStep(s, i).k = "hit"
        /\ \A j \in 2..i : OBStep(s, j).k # "raise"}

\* the n largest members of a set of indices
LargestN(m, n) == {i \in m : Cardinality({j \in m : j > i}) < n}

\* C1: find_order_blocks returns at most 5 order blocks, in ascending order
\* of their originating candle index, and they are exactly the last 5 (or
\* all, if fewer) of the matches the scan found.
C1_OrderBlocksLastFive ==
    pc = "order_blocks_done" =>
        LET kept == LargestN(OBMatchIdx(series), 5) IN
        /\ Len(order_blocks) <= 5
        /\ \A a, b \in 1..Len(order_blocks) :
             a < b => order_blocks[a].timestamp < order_blocks[b].timestamp
        /\ {order_blocks[a].timestamp : a \in 1..Len(order_blocks)} = kept
        /\ \A a \in 1..Len(order_blocks) :
             order_blocks[a] = OBStep(series, order_blocks[a].timestamp).block

\* a frame whose scan matched more than five windows
C1_Witness ==
    /\ pc = "order_blocks_done"
    /\ Cardinality(OBMatchIdx(series)) > 5
    /\ Len(order_blocks) = 5

\* candidate zones of a frame: rounded levels tested at least twice
LZCandidates(s, col) ==
    LET r == RoundCol(s, col) IN IF r.k = "raise" THEN {} ELSE Repeated(r.col)

\* C2: find_liquidity_zones returns at most 5 zones, sorted by strength in
\* non-increasing order, and every returned zone has strength >= 2.
C2_ZonesRanked ==
    pc = "liquidity_zones_done" =>
        /\ Len(liquidity_zones) <= 5
        /\ \A a, b \in 1..Len(liquidity_zones) :
             a < b => liquidity_zones[a].strength >= liquidity_zones[b].strength
        /\ \A a \in 1..Len(liquidity_zones) : liquidity_zones[a].strength >= 2

\* six candidate zones cut to five
C2_Witness ==
    /\ pc = "liquidity_zones_done"
    /\ Cardinality(LZCandidates(series, "High")) + Cardinality(LZCandidates(series, "Low")) > 5
    /\ Len(liquidity_zones) = 5

\* indices at which the scan of calculate_fair_value_gaps found a gap before
\* any exception ended it
FVGMatchIdx(s) ==
    {i \in 1..(Len(s) - 2) :
        /\ FVGStep(s, i).k = "hit"
        /\ \A j \in 1..i : FVGStep(s, j).k # "raise"}

C4_ShortFramesEmpty ==
    /\ raised = "none"
    /\ (pc \in {"order_blocks_done", "liquidity_zones_done", "fvgs_done", "trade_done"}
          /\ Len(series) < 5) => order_blocks = <<>>
    /\ (pc \in {"liquidity_zones_done", "fvgs_done", "trade_done"} /\ Len(series) < 2)
          => liquidity_zones = <<>>
    /\ (pc \in {"fvgs_done", "trade_done"} /\ Len(series) < 3) => fvgs = <<>>

\* all three detectors have run on a frame of one candle
C4_Witness ==
    /\ pc = "fvgs_done"
    /\ Len(series) = 1
    /\ order_blocks = <<>> /\ liquidity_zones = <<>> /\ fvgs = <<>>

\* the frame holds no non-number in its High and Low columns
PricesAreNumbers(s) ==
    \A i \in 1..Len(s) : s[i].High.k # "bad" /\ s[i].Low.k # "bad"

\* cell c, rounded to 2 decimals, is the level (in mills)
RoundsTo(c, level) ==
    /\ IsNum(c)
    /\ level % 10 = 0
    /\ \/ 2 * Abs(c.v - level) < 10
       \/ 2 * Abs(c.v - level) = 10 /\ (level \div 10) % 2 = 0

\* candles whose column col rounds to the level
Tests(s, col, level) == {i \in 1..Len(s) : RoundsTo(s[i][col], level)}

\* levels of column col reached by at least two candles
RepeatedLevels(s, col) ==
    {l \in {RoundHalfEven(s[i][col].v, 10) * 10 : i \in {j \in 1..Len(s) : IsNum(s[j][col])}} :
        Cardinality(Tests(s, col, l)) >= 2}

ZoneCol(type) == IF type = "buy_side" THEN "High" ELSE "Low"

\* C8: every returned buy_side (sell_side) zone has strength equal to the
\* number of candles whose high (low) rounded to 2 decimals equals its
\* level; when the frame has at most 5 repeated rounded levels (buy-side and
\* sell-side candidates counted together), every rounded high or low that
\* occurs at least twice appears as a zone; and if exactly one rounded high
\* occurs 3 times and no other level repeats, the output is that single
\* buy_side zone with strength 3.  The frame's highs and lows are numbers or
\* NaN.
C8_ZoneStrengthIsCount ==
    (pc = "liquidity_zones_done" /\ PricesAreNumbers(series)) =>
        LET rh == RepeatedLevels(series, "High")
            rl == RepeatedLevels(series, "Low")
        IN /\ \A a \in 1..Len(liquidity_zones) :
                liquidity_zones[a].strength =
                    Cardinality(Tests(series, ZoneCol(liquidity_zones[a].type),
                                      liquidity_zones[a].level))
           /\ Cardinality(rh) + Cardinality(rl) <= 5 =>
                /\ \A l \in rh : \E a \in 1..Len(liquidity_zones) :
                     liquidity_zones[a].type = "buy_side" /\ liquidity_zones[a].level = l
                /\ \A l \in rl : \E a \in 1..Len(liquidity_zones) :
                     liquidity_zones[a].type = "sell_side" /\ liquidity_zones[a].level = l
           /\ (rl = {} /\ Cardinality(rh) = 1
                 /\ \A l \in rh : Cardinality(Tests(series, "High", l)) = 3) =>
                /\ Len(liquidity_zones) = 1
                /\ liquidity_zones[1].type = "buy_side"
                /\ liquidity_zones[1].level \in rh
                /\ liquidity_zones[1].strength = 3

\* three candles whose highs differ and round to one level, no low repeated
C8_Witness ==
    /\ pc = "liquidity_zones_done"
    /\ PricesAreNumbers(series)
    /\ RepeatedLevels(series, "Low") = {}
    /\ Len(liquidity_zones) = 1
    /\ liquidity_zones[1].strength = 3
    /\ \E i, j \in 1..Len(series) : series[i].High # series[j].High
         /\ RoundsTo(series[i].High, liquidity_zones[1].level)
         /\ RoundsTo(series[j].High, liquidity_zones[1].level)

\* a < b on two cells that both hold numbers
NumLess(a, b) == a.k = "num" /\ b.k = "num" /\ a.v < b.v

\* candle i closes below its open, candle i+1 above its open, and candle
\* i+2 closes above the close of candle i+1
BullishWindow(s, i) ==
    /\ NumLess(At(s, "Close", i), At(s, "Open", i))
    /\ NumLess(At(s, "Open", i + 1), At(s, "Close", i + 1))
    /\ NumLess(At(s, "Close", i + 1), At(s, "Close", i + 2))

\* candle i closes above its open, candle i+1 below its open, and candle
\* i+2 closes below the close of candle i+1
BearishWindow(s, i) ==
    /\ NumLess(At(s, "Open", i), At(s, "Close", i))
    /\ NumLess(At(s, "Close", i + 1), At(s, "Open", i + 1))
    /\ NumLess(At(s, "Close", i + 2), At(s, "Close", i + 1))

\* indices 2 <= i <= n-3 whose window matches
WindowIdx(s) ==
    {i \in 2..(Len(s) - 3) : BullishWindow(s, i) \/ BearishWindow(s, i)}

\* C11: on frames too short for the truncation to drop anything,
\* find_order_blocks emits a block for index i if and only if 2 <= i <= n-3
\* and the window (i, i+1, i+2) is bullish or bearish; no window is both;
\* each index yields one block, bullish with level low[i] or bearish with
\* level high[i], stamped with candle i, and its strength is strong exactly
\* when |close[i+2] - close[i]| > 0.2% of close[i], otherwise medium.
C11_WindowBlocks ==
    pc = "order_blocks_done" =>
        /\ \A i \in 0..(Len(series) - 3) :
             ~(BullishWindow(series, i) /\ BearishWindow(series, i))
        /\ Len(order_blocks) = Cardinality(WindowIdx(series))
        /\ {order_blocks[a].timestamp : a \in 1..Len(order_blocks)} = WindowIdx(series)
        /\ \A a \in 1..Len(order_blocks) :
             LET b == order_blocks[a]
                 i == b.timestamp
                 move == Abs(At(series, "Close", i + 2).v - At(series, "Close", i).v)
             IN /\ b.type = (IF BullishWindow(series, i) THEN "bullish" ELSE "bearish")
                /\ b.level = (IF b.type = "bullish" THEN At(series, "Low", i)
                                                    ELSE At(series, "High", i))
                /\ b.strength \in {"strong", "medium"}
                /\ b.strength = "strong" <=> move * 1000 > At(series, "Close", i).v * 2

\* a bullish block at index 2 whose move is exactly 0.2% of close[2], in a
\* frame whose window at index 1, outside the scanned range, is bearish
C11_Witness ==
    /\ pc = "order_blocks_done"
    /\ Len(order_blocks) = 1
    /\ order_blocks[1].type = "bullish"
    /\ order_blocks[1].timestamp = 2
    /\ order_blocks[1].strength = "medium"
    /\ Abs(At(series, "Close", 4).v - At(series, "Close", 2).v) * 1000
         = At(series, "Close", 2).v * 2
    /\ BearishWindow(series, 1)

\* low[i+1] > high[i-1] and the gap between them exceeds 0.1% of close[i]
BullishGap(s, i) ==
    /\ NumLess(At(s, "High", i - 1), At(s, "Low", i + 1))
    /\ IsNum(At(s, "Close", i))
    /\ (At(s, "Low", i + 1).v - At(s, "High", i - 1).v) * 1000 > At(s, "Close", i).v

\* high[i+1] < low[i-1] and the gap between them exceeds 0.1% of close[i]
BearishGap(s, i) ==
    /\ NumLess(At(s, "High", i + 1), At(s, "Low", i - 1))
    /\ IsNum(At(s, "Close", i))
    /\ (At(s, "Low", i - 1).v - At(s, "High", i + 1).v) * 1000 > At(s, "Close", i).v

\* the gaps returned are the last 3 of one gap per index of idx, each with
\* the bounds of its type, upper > lower, size = upper - lower and
\* midpoint = (upper + lower) / 2
GapsAre(idx) ==
    LET kept == LargestN(idx, 3)
        rank(i) == Cardinality({j \in kept : j <= i})
    IN /\ Len(fvgs) = Cardinality(kept)
       /\ \A i \in kept :
            LET g == fvgs[rank(i)] IN
            /\ g.type \in {"bullish", "bearish"}
            /\ g.type = "bullish" =>
                 /\ BullishGap(series, i)
                 /\ g.upper = At(series, "Low", i + 1).v
                 /\ g.lower = At(series, "High", i - 1).v
            /\ g.type = "bearish" =>
                 /\ BearishGap(series, i)
                 /\ g.upper = At(series, "Low", i - 1).v
                 /\ g.lower = At(series, "High", i + 1).v
            /\ g.upper > g.lower
            /\ g.size = g.upper - g.lower
            /\ g.midpoint.n * 2 = (g.upper + g.lower) * g.midpoint.d

----------------------------------------------------------------------------
(* Properties of the calculations *)

\* C5: for every number of confluence factors, trend label, rsi the
\* indicator fetcher can supply (a missing or null rsi included) and random
\* adjustment, _calculate_confidence returns an integer s with 50 <= s <= 95.
C5_ConfidenceInRange ==
    conf.k = "call" => (raised = "none" /\ conf.score \in 50..95)

\* C6: bias bullish, current_price 100, balance 10000, risk_percent 2.5 and
\* a non-forex asset class give entry 99.9, stop_loss 99.4, tp1 100.4,
\* tp2 100.9, tp3 101.4, risk_amount 250.0, pip_risk 0.5 and position_size
\* 500.0.
C6_WorkedExample ==
    (/\ trade.k = "params"
     /\ trade.bias = "bullish"
     /\ trade.current_price = RInt(100)
     /\ trade.balance = RInt(10000)
     /\ trade.risk_percent = Rat(5, 2)
     /\ trade.asset_type \in {<<>>, <<"s", "t", "o", "c", "k">>}) =>
        /\ raised = "none"
        /\ trade.setup # NoCall
        /\ trade.setup.entry = Rat(999, 10)
        /\ trade.setup.stop_loss = Rat(994, 10)
        /\ trade.setup.targets.tp1 = Rat(1004, 10)
        /\ trade.setup.targets.tp2 = Rat(1009, 10)
        /\ trade.setup.targets.tp3 = Rat(1014, 10)
        /\ trade.setup.risk_amount = RInt(250)
        /\ trade.setup.pip_risk = Rat(1, 2)
        /\ trade.setup.position_size = RInt(500)

\* the call of the worked example, for a stock
C6_Witness ==
    /\ pc = "trade_done"
    /\ trade.k = "params"
    /\ trade.bias = "bullish"
    /\ trade.current_price = RInt(100)
    /\ trade.balance = RInt(10000)
    /\ trade.risk_percent = Rat(5, 2)
    /\ trade.asset_type = <<"s", "t", "o", "c", "k">>
    /\ trade.setup # NoCall

\* entry and stop_loss of the last call coincide
ZeroDistance ==
    \/ /\ trade.k = "params"
       /\ LET e == TradeEntry(trade.current_price, trade.bias)
          IN TradeStop(e, StopDistance(trade.current_price), trade.bias) = e
    \/ /\ trade.k = "position"
       /\ trade.entry = trade.stop_loss

\* C7: whenever the distance between entry and stop_loss is 0, the
\* calculation fails with a ZeroRiskDistance error: it performs no division
\* by pip_risk and returns no trade setup.
C7_ZeroRiskDistanceRaised ==
    ZeroDistance => (raised = "ZeroRiskDistance" /\ trade.setup = NoCall)

\* current_price <= 0, risk_percent outside (0, 100], or balance < 0
InvalidInput ==
    /\ trade.k = "params"
    /\ \/ trade.current_price.n <= 0
       \/ trade.risk_percent.n <= 0
       \/ RLess(RInt(100), trade.risk_percent)
       \/ trade.balance.n < 0

\* C9: for current_price <= 0, risk_percent outside (0, 100] or balance < 0
\* the trade-parameter calculation returns an InvalidInput error and no
\* trade setup.
C9_InvalidInputRejected ==
    InvalidInput => (raised = "InvalidInput" /\ trade.setup = NoCall)

\* some candle of the frame has a NaN value
FrameHasNaN(s) ==
    \E i \in 1..Len(s) : \E col \in {"Open", "High", "Low", "Close"} : s[i][col].k = "nan"

\* C10: a detector that meets an anomaly in its input (a candle with a NaN
\* value, or a failure raised part-way through its scan) returns an empty
\* result; the other two detectors and the trade-parameter calculation of
\* the same request still run and return their results.
C10_AnomalyEmptiesDetector ==
    /\ (pc \in {"order_blocks_done", "liquidity_zones_done", "fvgs_done", "trade_done"}
          /\ (FrameHasNaN(series) \/ "order_blocks" \in logged)) => order_blocks = <<>>
    /\ (pc \in {"liquidity_zones_done", "fvgs_done", "trade_done"}
          /\ (FrameHasNaN(series) \/ "liquidity_zones" \in logged)) => liquidity_zones = <<>>
    /\ (pc \in {"fvgs_done", "trade_done"}
          /\ (FrameHasNaN(series) \/ "fvgs" \in logged)) => fvgs = <<>>
    /\ pc = "order_blocks_done" => ENABLED DetectLiquidityZones
    /\ pc = "liquidity_zones_done" => ENABLED DetectFairValueGaps
    /\ pc = "fvgs_done" => ENABLED AnalyzeTradeParameters
    /\ pc = "trade_done" => (raised = "none" /\ trade.setup # NoCall)

\* C13: for current_price > 0, before rounding: with bias bullish entry is
\* 99.9% of current_price, stop_loss = entry - d and tp_k = entry + k*d for
\* k = 1, 2, 3, d being 0.5% of current_price, so stop_loss < entry < tp1 <
\* tp2 < tp3; with bias bearish entry is 100.1% of current_price, stop_loss =
\* entry + d and tp_k = entry - k*d, so tp3 < tp2 < tp1 < entry < stop_loss;
\* the distance from entry to tp_k is k times that from entry to stop_loss.
C13_EntryStopTargets ==
    (trade.k = "params" /\ trade.current_price.n > 0) =>
        LET v == trade.locals
            p == trade.current_price
            d == RMul(p, Rat(5, 1000))
            tp == <<v.tp1, v.tp2, v.tp3>>
            risk == RAbs(RSub(v.entry, v.stop_loss))
        IN /\ trade.bias = "bullish" =>
                /\ v.entry = RMul(p, Rat(999, 1000))
                /\ v.stop_loss = RSub(v.entry, d)
                /\ \A k \in 1..3 : tp[k] = RAdd(v.entry, RMul(RInt(k), d))
                /\ RLess(v.stop_loss, v.entry) /\ RLess(v.entry, v.tp1)
                /\ RLess(v.tp1, v.tp2) /\ RLess(v.tp2, v.tp3)
           /\ trade.bias = "bearish" =>
                /\ v.entry = RMul(p, Rat(1001, 1000))
                /\ v.stop_loss = RAdd(v.entry, d)
                /\ \A k \in 1..3 : tp[k] = RSub(v.entry, RMul(RInt(k), d))
                /\ RLess(v.tp3, v.tp2) /\ RLess(v.tp2, v.tp1)
                /\ RLess(v.tp1, v.entry) /\ RLess(v.entry, v.stop_loss)
           /\ \A k \in 1..3 : RAbs(RSub(tp[k], v.entry)) = RMul(RInt(k), risk)
           /\ raised = "none" =>
                trade.setup.risk_reward_ratios = <<RInt(1), RInt(2), RInt(3)>>

\* a bearish call at a price that is no whole number
C13_Witness ==
    /\ trade.k = "params"
    /\ trade.bias = "bearish"
    /\ trade.current_price = Rat(5, 4)
    /\ raised = "none"
    /\ trade.locals.tp3 = Rat(12325, 10000)

\* the labels of AssetTypes that contain 'forex' in some letter case
ForexLabels ==
    { <<"f", "o", "r", "e", "x">>,
      <<"F", "o", "r", "e", "x">>,
      <<"F", "O", "R", "E", "X", " ", "p", "a", "i", "r">> }

\* C14: risk_amount = balance * risk_percent / 100 and pip_risk =
\* |entry - stop_loss|; the position size is risk_amount / (pip_risk * 10000
\* * 10) and pip_risk is reported multiplied by 10000 exactly when the
\* asset-class label contains 'forex' in any letter case; for every other
\* label position_size = risk_amount / pip_risk, so position_size * pip_risk
\* = risk_amount, and pip_risk is reported in price units.
C14_PositionSizing ==
    (trade.k = "params" /\ raised = "none") =>
        LET v == trade.locals
            out == trade.setup
        IN /\ v.risk_amount = RMul(RMul(trade.balance, trade.risk_percent), Rat(1, 100))
           /\ v.pip_risk = RAbs(RSub(v.entry, v.stop_loss))
           /\ IF trade.asset_type \in ForexLabels
              THEN /\ RMul(v.position_size, RMul(v.pip_risk, RInt(100000))) = v.risk_amount
                   /\ out.pip_risk = RRound(RMul(v.pip_risk, RInt(10000)), 1)
              ELSE /\ RMul(v.position_size, v.pip_risk) = v.risk_amount
                   /\ out.pip_risk = RRound(v.pip_risk, 1)

\* a call with the label "Forex": risk 250 over a pip_risk of 0.5 gives a
\* position of 0.005 before rounding, and pip_risk is reported as 5000
C14_Witness ==
    /\ trade.k = "params"
    /\ raised = "none"
    /\ trade.asset_type = <<"F", "o", "r", "e", "x">>
    /\ trade.current_price = RInt(100)
    /\ trade.balance = RInt(10000)
    /\ trade.risk_percent = Rat(5, 2)
    /\ trade.locals.position_size = Rat(5, 1000)
    /\ trade.setup.pip_risk = RInt(5000)

\* every candidate zone of frame s: a side and a repeated rounded level
LZCandidateZones(s) ==
    {<<"buy_side", l>> : l \in RepeatedLevels(s, "High")}
        \cup {<<"sell_side", l>> : l \in RepeatedLevels(s, "Low")}

\* at equal strength every buy_side zone precedes every sell_side zone, and
\* the zones returned are the first 5 of that ordering: no candidate left out
\* is stronger than a zone returned, or a buy_side zone as strong as a
\* sell_side zone returned
BuyBeforeSell ==
    /\ \A a, b \in 1..Len(liquidity_zones) :
         (/\ a < b
          /\ liquidity_zones[a].strength = liquidity_zones[b].strength
          /\ liquidity_zones[a].type # liquidity_zones[b].type) =>
            liquidity_zones[a].type = "buy_side"
    /\ Len(liquidity_zones) = IF Cardinality(LZCandidateZones(series)) < 5
                              THEN Cardinality(LZCandidateZones(series)) ELSE 5
    /\ \A c \in LZCandidateZones(series) :
         \/ \E a \in 1..Len(liquidity_zones) :
               liquidity_zones[a].type = c[1] /\ liquidity_zones[a].level = c[2]
         \/ \A a \in 1..Len(liquidity_zones) :
               LET z == liquidity_zones[a]
                   n == Cardinality(Tests(series, ZoneCol(c[1]), c[2]))
               IN /\ z.strength >= n
                  /\ ~(z.strength = n /\ c[1] = "buy_side" /\ z.type = "sell_side")

\* C15 as stated: among zones of equal strength every buy_side zone precedes
\* every sell_side zone, zones of one side appear in ascending order of
\* their price level, and the first 5 zones of this ordering are returned.
C15_TiesAscending ==
    (pc = "liquidity_zones_done" /\ PricesAreNumbers(series)) =>
        /\ BuyBeforeSell
        /\ \A a, b \in 1..Len(liquidity_zones) :
             (/\ a < b
              /\ liquidity_zones[a].strength = liquidity_zones[b].strength
              /\ liquidity_zones[a].type = liquidity_zones[b].type) =>
                liquidity_zones[a].level < liquidity_zones[b].level

\* C15, amended: among zones of equal strength every buy_side zone precedes
\* every sell_side zone, and the first 5 zones of the ordering are returned;
\* the order of equally strong zones of one side is not fixed by their level.
C15_TiesBuyFirst ==
    (pc = "liquidity_zones_done" /\ PricesAreNumbers(series)) => BuyBeforeSell

\* three buy_side and three sell_side candidates of strength 2: the three
\* buy_side zones and two sell_side zones are returned, the buy_side zones
\* not in ascending order of level
C15_Witness ==
    /\ pc = "liquidity_zones_done"
    /\ PricesAreNumbers(series)
    /\ Cardinality(LZCandidateZones(series)) = 6
    /\ Len(liquidity_zones) = 5
    /\ \A a \in 1..5 : liquidity_zones[a].strength = 2
    /\ liquidity_zones[3].type = "buy_side"
    /\ liquidity_zones[4].type = "sell_side"
    /\ liquidity_zones[1].level > liquidity_zones[2].level

\* C16: for a confluence factor count c, a trend label t and a numeric rsi
\* r, the score returned with random adjustment j in -5..10 is
\* min(95, max(50, 60 + (0 for c <= 3, 10 for c = 4 or 5, 20 for c >= 6)
\* + (5 if t is bullish or bearish) + (5 if 30 < r < 70) + j)), and every j of
\* -5..10 can be the adjustment; c = 3, c = 5, r = 30 and r = 70 earn no
\* further bonus.
C16_ScoreFormula ==
    /\ pc = "idle" =>
         \A c \in {0, 3, 4, 5, 6}, r \in {30, 50, 70}, j \in -5..10 :
            ENABLED (/\ CalculateConfidence
                     /\ conf'.factors = c
                     /\ conf'.rsi = Num(r)
                     /\ conf'.jitter = j)
    /\ (conf.k = "call" /\ IsNum(conf.rsi)) =>
        LET c == conf.factors
            r == conf.rsi.v
            sum == 60 + (IF c <= 3 THEN 0 ELSE IF c <= 5 THEN 10 ELSE 20)
                      + (IF conf.trend = "bullish" \/ conf.trend = "bearish" THEN 5 ELSE 0)
                      + (IF r <= 30 \/ r >= 70 THEN 0 ELSE 5)
                      + conf.jitter
        IN /\ raised = "none"
           /\ conf.jitter \in -5..10
           /\ sum >= 95 => conf.score = 95
           /\ sum <= 50 => conf.score = 50
           /\ (50 < sum /\ sum < 95) => conf.score = sum

\* five factors, no clear trend and an rsi of 70 with the lowest adjustment:
\* 60 + 10 - 5
C16_Witness ==
    /\ conf.k = "call"
    /\ conf.factors = 5
    /\ conf.trend = "None"
    /\ conf.rsi = Num(70)
    /\ conf.jitter = -5
    /\ conf.score = 65

\* the session of the user of the request exists and its asset, price,
\* timeframe and balance have been set by chat messages
SessionComplete(u) ==
    /\ u \in DOMAIN sessions
    /\ sessions[u].asset # "None"
    /\ sessions[u].price # NoneValue
    /\ sessions[u].timeframe # "None"
    /\ sessions[u].balance # NoneValue

\* C17: /api/analyze reaches the trade-parameter calculation and overwrites
\* the session's analysis_data only if the user's session exists and its
\* asset, price, timeframe and balance have each been set by an earlier chat
\* message; otherwise it answers 404 or 400 and leaves the session unchanged.
C17_AnalyzeNeedsCompleteSession ==
    [][(response'.k # "none" /\ response'.route = "analyze") =>
          LET u == response'.user IN
          /\ response'.reached => SessionComplete(u)
          /\ (u \in DOMAIN sessions /\ sessions'[u].analysis_data # sessions[u].analysis_data)
                => SessionComplete(u)
          /\ ~SessionComplete(u) =>
                (response'.status \in {404, 400} /\ sessions' = sessions)]_vars

====
